---- MODULE Spec2Model ----
(***************************************************************************)
(* Model of the branch reconciliation of claude-code-gitea-action:         *)
(* checkAndCommitOrDeleteBranch (src/github/validation/actor.ts) together  *)
(* with the configuration helpers it reads (src/github/api/config.ts).     *)
(*                                                                         *)
(* One behaviour is one call of checkAndCommitOrDeleteBranch.  The call is *)
(* an async function: every `await` is a suspension point, so the model    *)
(* has one action per request/response boundary.  The platform API, the    *)
(* shell and the HTTP layer are the environment: each response is chosen   *)
(* nondeterministically from what that collaborator can answer.            *)
(***************************************************************************)
EXTENDS Integers, Sequences, FiniteSets, TLC

(***************************************************************************)
(* Bounds of the model.                                                    *)
(***************************************************************************)
\* number of distinct commit SHAs a branch head can have
NumSHAs == 2
\* largest number of lines `git status --porcelain` prints
MaxStatusLines == 2

(***************************************************************************)
(* JavaScript values: a string, or undefined.                              *)
(***************************************************************************)
Undefined == [def |-> FALSE, str |-> ""]
Str(s) == [def |-> TRUE, str |-> s]
\* JS truthiness of a `string | undefined`: undefined and "" are falsy
Truthy(v) == v.def /\ v.str # ""
\* a || b on strings
OrElse(a, b) == IF Truthy(a) THEN a ELSE b

(***************************************************************************)
(* Branch names.  A name is a list of segments of URI-unreserved characters *)
(* joined by "/" (claude/issue-12); undefined is the absent argument.      *)
(***************************************************************************)
RECURSIVE Join(_, _)
Join(segs, sep) ==
    IF segs = <<>> THEN ""
    ELSE IF Len(segs) = 1 THEN segs[1]
    ELSE segs[1] \o sep \o Join(Tail(segs), sep)

BranchName(b) == Join(b.segs, "/")
\* encodeURIComponent escapes the "/" between the segments as %2F
EncodeURIComponent(b) == Join(b.segs, "%2F")
\* `if (claudeBranch)`: the argument is given and is not the empty string
BranchGiven(b) == b.def /\ BranchName(b) # ""

NoBranch == [def |-> FALSE, segs |-> <<>>]
ClaudeBranches ==
    { NoBranch,
      [def |-> TRUE, segs |-> <<>>],
      [def |-> TRUE, segs |-> <<"claude-fix">>],
      [def |-> TRUE, segs |-> <<"claude", "issue-12">>] }

Owner == "acme"
Repo == "widgets"
BaseBranch == "main"

(***************************************************************************)
(* process.env: the variables the call reads.                              *)
(***************************************************************************)
Envs ==
    [ GITEA_API_URL     : {Undefined, Str(""), Str("https://gitea.example.com/api/v1")},
      GITEA_SERVER_URL  : {Undefined, Str("https://gitea.example.com")},
      GITHUB_SERVER_URL : {Undefined, Str("https://ghe.example.com")},
      GITHUB_RUN_NUMBER : {Undefined, Str("42")} ]

(***************************************************************************)
(* src/github/api/config.ts                                                *)
(***************************************************************************)
\* SERVER_URL = GITEA_SERVER_URL || GITHUB_SERVER_URL || "https://github.com"
GetServerUrl(e) ==
    OrElse(e.GITEA_SERVER_URL, OrElse(e.GITHUB_SERVER_URL, Str("https://github.com"))).str

\* mutant: tests the variable for being set instead of for being truthy
IsGiteaInstanceWhenSet(e) == e.GITEA_API_URL.def

\* !!process.env.GITEA_API_URL
IsGiteaInstance(e) == Truthy(e.GITEA_API_URL)

(***************************************************************************)
(* What the collaborators can answer.                                      *)
(***************************************************************************)
SHAs == 1..NumSHAs

NotAsked == [state |-> "none"]

\* octokit.rest.repos.getBranch: the branch with its head commit, or a
\* request error (404 not found, another HTTP status, or no status at all)
GetBranchOk == { [state |-> "ok", sha |-> s] : s \in SHAs }
GetBranchFail == { [state |-> "fail", status |-> st] : st \in {404, 500, 0} }
GetBranchResponses == GetBranchOk \cup GetBranchFail

\* lines of `git status --porcelain`, as character sequences
PorcelainLines ==
    { <<" ", "M", " ", "a", "\n">>, <<"?", "?", " ", "b", "\n">> }

RECURSIVE PorcelainOutputs(_)
PorcelainOutputs(n) ==
    IF n = 0 THEN { <<>> }
    ELSE PorcelainOutputs(n - 1)
         \cup { l \o o : l \in PorcelainLines, o \in PorcelainOutputs(n - 1) }

\* a Bun shell command resolves with its stdout or throws (non-zero exit)
StatusResults ==
    { [state |-> "ok", stdout |-> o] : o \in PorcelainOutputs(MaxStatusLines) }
    \cup { [state |-> "fail"] }
ShellResults == { [state |-> "ok"], [state |-> "fail"] }

\* the delete request: deleteRef resolves or rejects; fetch resolves with a
\* response (ok or not) or rejects
DeleteRefResults == { [state |-> "ok"], [state |-> "fail", how |-> "rejected"] }
FetchResults ==
    { [state |-> "ok"],
      [state |-> "fail", how |-> "not ok"],
      [state |-> "fail", how |-> "rejected"] }

(***************************************************************************)
(* String.prototype.trim on a character sequence.                          *)
(***************************************************************************)
IsWhitespace(c) == c \in {" ", "\n", "\t", "\r"}

RECURSIVE TrimStart(_)
TrimStart(s) ==
    IF s # <<>> /\ IsWhitespace(Head(s)) THEN TrimStart(Tail(s)) ELSE s

RECURSIVE TrimEnd(_)
TrimEnd(s) ==
    IF s # <<>> /\ IsWhitespace(s[Len(s)])
    THEN TrimEnd(SubSeq(s, 1, Len(s) - 1))
    ELSE s

Trim(s) == TrimEnd(TrimStart(s))

(***************************************************************************)
(* The decisions of checkAndCommitOrDeleteBranch.                          *)
(***************************************************************************)
\* mutant: the comparison inverted
HasCommitsInverted(baseSHA, claudeSHA) == baseSHA = claudeSHA

\* const hasCommits = baseSHA !== claudeSHA
HasCommits(baseSHA, claudeSHA) == baseSHA # claudeSHA

\* mutant: >= 0 in place of > 0
HasUncommittedChangesAlways(stdout) == Len(Trim(stdout)) >= 0

\* gitStatus.stdout.toString().trim().length > 0
HasUncommittedChanges(stdout) == Len(Trim(stdout)) > 0

\* `\n[View branch](${getServerUrl()}/${owner}/${repo}/tree/${claudeBranch})`
BranchLinkFor(e, b) ==
    "\n[View branch](" \o GetServerUrl(e) \o "/" \o Owner \o "/" \o Repo
        \o "/tree/" \o BranchName(b) \o ")"

\* the auto-commit message with the run identifier
CommitMessage(e) ==
    "Auto-commit: Save uncommitted changes from Claude\n\nRun ID: "
        \o OrElse(e.GITHUB_RUN_NUMBER, Str("unknown")).str

(***************************************************************************)
(* The requests the call issues, in the order it issues them.              *)
(***************************************************************************)
GetBranchCall(name) == [kind |-> "api", op |-> "repos.getBranch", arg |-> name]
ShellCall(cmd) == [kind |-> "shell", op |-> cmd, arg |-> ""]
GitStatusCall == ShellCall("git status --porcelain")
GitAddCall == ShellCall("git add -A")
GitCommitCall(e) == [kind |-> "shell", op |-> "git commit -m", arg |-> CommitMessage(e)]
\* mutant: pushes to the base branch
GitPushCallToBase(b) == [kind |-> "shell", op |-> "git push origin", arg |-> BaseBranch]
GitPushCall(b) == [kind |-> "shell", op |-> "git push origin", arg |-> BranchName(b)]

\* the delete request of the active dialect
GiteaDeleteCall(e, b) ==
    [kind |-> "delete", op |-> "fetch DELETE",
     arg |-> e.GITEA_API_URL.str \o "/repos/" \o Owner \o "/" \o Repo
                 \o "/branches/" \o EncodeURIComponent(b)]
DeleteRefCall(b) ==
    [kind |-> "delete", op |-> "git.deleteRef", arg |-> "heads/" \o BranchName(b)]
DeleteCall(e, b) ==
    IF IsGiteaInstance(e) THEN GiteaDeleteCall(e, b) ELSE DeleteRefCall(b)

\* mutant: the flag is set whether or not the query threw
BranchExistsAlways(r) == TRUE

\* mutant: only a 404 leaves the flag false
BranchExistsUnlessNotFound(r) == IF r.state = "ok" THEN TRUE ELSE r.status # 404

\* try { await getBranch(claudeBranch); branchExistsRemotely = true } catch {}
\* a 404 and every other error alike leave branchExistsRemotely false
BranchExists(r) == r.state = "ok"

\* mutant: no comparison of the heads when commit signing is in use
CompareOutcomeIgnoresHeads(rb, rc, signing) ==
    IF rb.state # "ok" \/ rc.state # "ok" THEN "link"
    ELSE IF signing THEN "delete"
    ELSE IF rb.sha # rc.sha THEN "link"
    ELSE "status"

\* mutant: a failed comparison marks the branch for deletion
CompareOutcomeFailureDeletes(rb, rc, signing) ==
    IF rb.state # "ok" \/ rc.state # "ok" THEN "delete"
    ELSE IF rb.sha # rc.sha THEN "link"
    ELSE IF signing THEN "delete"
    ELSE "status"

\* mutant: the working tree is inspected even with commit signing
CompareOutcomeIgnoresSigning(rb, rc, signing) ==
    IF rb.state # "ok" \/ rc.state # "ok" THEN "link"
    ELSE IF rb.sha # rc.sha THEN "link"
    ELSE "status"

\* the try block around the head comparison: what the call does next.
\*   "link"   - set branchLink (heads differ, or the comparison threw)
\*   "delete" - set shouldDeleteBranch (no commits, commit signing in use)
\*   "status" - run `git status --porcelain`
CompareOutcome(rb, rc, signing) ==
    IF rb.state # "ok" \/ rc.state # "ok" THEN "link"
    ELSE IF HasCommits(rb.sha, rc.sha) THEN "link"
    ELSE IF signing THEN "delete"
    ELSE "status"

\* mutant: a failed status query counts as a clean tree
StatusOutcomeFailureDeletes(r) ==
    IF r.state # "ok" THEN "delete"
    ELSE IF Len(Trim(r.stdout)) > 0 THEN "commit"
    ELSE "delete"

\* the inner try block, after `git status --porcelain` settled
\*   "commit" - stage, commit and push the uncommitted changes
StatusOutcome(r) ==
    IF r.state # "ok" THEN "link"
    ELSE IF HasUncommittedChanges(r.stdout) THEN "commit"
    ELSE "delete"

\* mutant: the `throw` for a response that is not ok escapes the try block
DeleteFailureCaughtRejectionOnly(r) == r.how = "rejected"

\* lines 165-191: the fetch, the `throw` for a response that is not ok and
\* deleteRef all sit inside the try block, so the catch at line 188 takes
\* every failure of the delete request
DeleteFailureCaught(r) == r.how \in {"rejected", "not ok"}

(***************************************************************************)
(* State.  One behaviour is one call of one of the modelled functions;     *)
(* env, pc, calls, resp and result belong to whichever call is running.    *)
(***************************************************************************)
VARIABLES
    env,                  \* process.env
    pc,                   \* where the call is suspended
    calls,                \* requests and commands issued so far, in order
    resp,                 \* what each of them answered
    result                \* the value the call returned

\* checkAndCommitOrDeleteBranch
VARIABLES
    claudeBranch,         \* argument: the working branch, or undefined
    useCommitSigning,     \* argument
    branchLink,           \* local
    shouldDeleteBranch,   \* local
    branchExistsRemotely  \* local

\* fetchGitHubData
VARIABLES
    repository,           \* argument: "owner/repo", as its "/"-separated parts
    isPR,                 \* argument
    triggerUsername,      \* argument: a login, or undefined
    contextData,          \* local: the normalised issue or pull request
    comments,             \* local
    changedFiles,         \* local
    changedFilesWithSHA,  \* local
    reviewData            \* local

\* downloadCommentImages
VARIABLES
    imageComments,        \* argument `comments`
    commentsWithImages,   \* local: the comments with matches, and their urls
    urlToPathMap,         \* local: original URL -> local path
    cursor,               \* loop position: [k |-> comment, i |-> pair]
    signedUrls,           \* local: signed URLs of the comment being processed
    now,                  \* Date.now()
    invocation,           \* 1 for the first call, 2 for a second call
    firstMap              \* the map the first call returned

\* checkWritePermissions and checkHumanActor
VARIABLES
    actor                 \* context.actor, with what the platform holds of it

callVars == << env, pc, calls, resp, result >>

branchVars ==
    << claudeBranch, useCommitSigning, branchLink, shouldDeleteBranch,
       branchExistsRemotely >>

fetchVars ==
    << repository, isPR, triggerUsername, contextData, comments, changedFiles,
       changedFilesWithSHA, reviewData >>

imageVars ==
    << imageComments, commentsWithImages, urlToPathMap, cursor, signedUrls, now,
       invocation, firstMap >>

validationVars == << actor >>

vars == << callVars, branchVars, fetchVars, imageVars, validationVars >>

args == << claudeBranch, useCommitSigning, env >>

\* the variables of a function that is not running keep these values
BranchIdle ==
    /\ claudeBranch = [def |-> FALSE, segs |-> <<>>]
    /\ useCommitSigning = FALSE
    /\ branchLink = ""
    /\ shouldDeleteBranch = FALSE
    /\ branchExistsRemotely = FALSE

FetchIdle ==
    /\ repository = <<>>
    /\ isPR = FALSE
    /\ triggerUsername = Undefined
    /\ contextData = [def |-> FALSE]
    /\ comments = <<>>
    /\ changedFiles = <<>>
    /\ changedFilesWithSHA = <<>>
    /\ reviewData = [def |-> FALSE]

ImagesIdle ==
    /\ imageComments = <<>>
    /\ commentsWithImages = <<>>
    /\ urlToPathMap = <<>>
    /\ cursor = [k |-> 0, i |-> 0]
    /\ signedUrls = <<>>
    /\ now = 0
    /\ invocation = 0
    /\ firstMap = <<>>

ValidationIdle == actor = [name |-> ""]

NoResult == [returned |-> FALSE]
Returned(sdb, link) ==
    [returned |-> TRUE, shouldDeleteBranch |-> sdb, branchLink |-> link]

NoResponses ==
    [ exists |-> NotAsked, base |-> NotAsked, claude |-> NotAsked,
      status |-> NotAsked, add |-> NotAsked, commit |-> NotAsked,
      push |-> NotAsked, delete |-> NotAsked ]

Init ==
    /\ claudeBranch \in ClaudeBranches
    /\ useCommitSigning \in BOOLEAN
    /\ env \in Envs
    /\ pc = "start"
    /\ branchLink = ""
    /\ shouldDeleteBranch = FALSE
    /\ branchExistsRemotely = FALSE
    /\ calls = <<>>
    /\ resp = NoResponses
    /\ result = NoResult
    /\ FetchIdle
    /\ ImagesIdle
    /\ ValidationIdle

(***************************************************************************)
(* Lines 163-194: delete the branch if it was marked, then return.  `cs`   *)
(* are the requests issued so far, `sdb` and `link` the locals.            *)
(***************************************************************************)
Finish(cs, sdb, link) ==
    /\ shouldDeleteBranch' = sdb
    /\ branchLink' = link
    /\ IF sdb /\ BranchGiven(claudeBranch)
       THEN /\ calls' = Append(cs, DeleteCall(env, claudeBranch))
            /\ pc' = "awaitDelete"
            /\ result' = result
       ELSE /\ calls' = cs
            /\ pc' = "done"
            /\ result' = Returned(sdb, link)

\* lines 56-67: the call starts; with a branch it asks whether it exists
Call ==
    /\ pc = "start"
    /\ IF BranchGiven(claudeBranch)
       THEN /\ calls' = Append(calls, GetBranchCall(BranchName(claudeBranch)))
            /\ pc' = "awaitExists"
            /\ UNCHANGED << branchLink, shouldDeleteBranch, result >>
       ELSE Finish(calls, FALSE, "")
    /\ UNCHANGED << args, fetchVars, imageVars, validationVars, branchExistsRemotely, resp >>

\* lines 62-91: the existence query settles; a missing branch returns at
\* line 82, an existing one starts both head queries (Promise.all)
ExistsSettled ==
    /\ pc = "awaitExists"
    /\ \E r \in GetBranchResponses :
        /\ resp' = [resp EXCEPT !.exists = r]
        /\ branchExistsRemotely' = BranchExists(r)
        /\ IF BranchExists(r)
           THEN /\ calls' = calls \o << GetBranchCall(BaseBranch),
                                        GetBranchCall(BranchName(claudeBranch)) >>
                /\ pc' = "awaitHeads"
                /\ result' = result
           ELSE /\ calls' = calls
                /\ pc' = "done"
                /\ result' = Returned(FALSE, "")
    /\ UNCHANGED << args, fetchVars, imageVars, validationVars, branchLink, shouldDeleteBranch >>

\* lines 86-160: both head queries settle
HeadsSettled ==
    /\ pc = "awaitHeads"
    /\ \E rb \in GetBranchResponses, rc \in GetBranchResponses :
        /\ resp' = [resp EXCEPT !.base = rb, !.claude = rc]
        /\ LET next == CompareOutcome(rb, rc, useCommitSigning) IN
            CASE next = "link" ->
                   Finish(calls, shouldDeleteBranch, BranchLinkFor(env, claudeBranch))
              [] next = "delete" ->
                   Finish(calls, TRUE, branchLink)
              [] next = "status" ->
                   /\ calls' = Append(calls, GitStatusCall)
                   /\ pc' = "awaitStatus"
                   /\ UNCHANGED << branchLink, shouldDeleteBranch, result >>
    /\ UNCHANGED << args, fetchVars, imageVars, validationVars, branchExistsRemotely >>

\* lines 106-143: `git status --porcelain` settles
StatusSettled ==
    /\ pc = "awaitStatus"
    /\ \E r \in StatusResults :
        /\ resp' = [resp EXCEPT !.status = r]
        /\ LET next == StatusOutcome(r) IN
            CASE next = "link" ->
                   Finish(calls, shouldDeleteBranch, BranchLinkFor(env, claudeBranch))
              [] next = "delete" ->
                   Finish(calls, TRUE, branchLink)
              [] next = "commit" ->
                   /\ calls' = Append(calls, GitAddCall)
                   /\ pc' = "awaitAdd"
                   /\ UNCHANGED << branchLink, shouldDeleteBranch, result >>
    /\ UNCHANGED << args, fetchVars, imageVars, validationVars, branchExistsRemotely >>

\* lines 115-120 and 138-143: `git add -A` settles; a failure is caught
AddSettled ==
    /\ pc = "awaitAdd"
    /\ \E r \in ShellResults :
        /\ resp' = [resp EXCEPT !.add = r]
        /\ IF r.state = "ok"
           THEN /\ calls' = Append(calls, GitCommitCall(env))
                /\ pc' = "awaitCommit"
                /\ UNCHANGED << branchLink, shouldDeleteBranch, result >>
           ELSE Finish(calls, shouldDeleteBranch, BranchLinkFor(env, claudeBranch))
    /\ UNCHANGED << args, fetchVars, imageVars, validationVars, branchExistsRemotely >>

\* lines 120-123 and 138-143: `git commit` settles; a failure is caught
CommitSettled ==
    /\ pc = "awaitCommit"
    /\ \E r \in ShellResults :
        /\ resp' = [resp EXCEPT !.commit = r]
        /\ IF r.state = "ok"
           THEN /\ calls' = Append(calls, GitPushCall(claudeBranch))
                /\ pc' = "awaitPush"
                /\ UNCHANGED << branchLink, shouldDeleteBranch, result >>
           ELSE Finish(calls, shouldDeleteBranch, BranchLinkFor(env, claudeBranch))
    /\ UNCHANGED << args, fetchVars, imageVars, validationVars, branchExistsRemotely >>

\* mutant: a failed push marks the branch for deletion
PushSettledFailureDeletes ==
    /\ pc = "awaitPush"
    /\ \E r \in ShellResults :
        /\ resp' = [resp EXCEPT !.push = r]
        /\ IF r.state = "ok"
           THEN Finish(calls, shouldDeleteBranch, BranchLinkFor(env, claudeBranch))
           ELSE Finish(calls, TRUE, BranchLinkFor(env, claudeBranch))
    /\ UNCHANGED << args, fetchVars, imageVars, validationVars, branchExistsRemotely >>

\* lines 123-131 and 138-143: `git push` settles; success sets the branch
\* link at line 131, failure sets the same link in the catch at line 142
PushSettled ==
    /\ pc = "awaitPush"
    /\ \E r \in ShellResults :
        /\ resp' = [resp EXCEPT !.push = r]
        /\ Finish(calls, shouldDeleteBranch, BranchLinkFor(env, claudeBranch))
    /\ UNCHANGED << args, fetchVars, imageVars, validationVars, branchExistsRemotely >>

\* lines 165-194: the delete request settles; a rejection or a response that
\* is not ok is caught and logged, and the call returns its locals
DeleteSettled ==
    /\ pc = "awaitDelete"
    /\ \E r \in (IF IsGiteaInstance(env) THEN FetchResults ELSE DeleteRefResults) :
        /\ resp' = [resp EXCEPT !.delete = r]
        /\ IF r.state = "ok" \/ DeleteFailureCaught(r)
           THEN /\ pc' = "done"
                /\ result' = Returned(shouldDeleteBranch, branchLink)
           ELSE /\ pc' = "thrown"
                /\ result' = result
    /\ UNCHANGED << args, fetchVars, imageVars, validationVars, branchLink, shouldDeleteBranch, branchExistsRemotely, calls >>

Next ==
    \/ Call
    \/ ExistsSettled
    \/ HeadsSettled
    \/ StatusSettled
    \/ AddSettled
    \/ CommitSettled
    \/ PushSettled
    \/ DeleteSettled

Spec == Init /\ [][Next]_vars

(***************************************************************************)
(* Vocabulary of the properties.                                           *)
(***************************************************************************)
Done == pc = "done"

CallsOfKind(k) == SelectSeq(calls, LAMBDA c : c.kind = k)
ShellCalls == CallsOfKind("shell")
ApiCalls == CallsOfKind("api")
DeleteCalls == CallsOfKind("delete")
ShellOps == [i \in 1..Len(ShellCalls) |-> ShellCalls[i].op]

\* both head queries succeeded and returned the same commit SHA
HeadsEqual ==
    /\ resp.base.state = "ok"
    /\ resp.claude.state = "ok"
    /\ resp.base.sha = resp.claude.sha

TypeOK ==
    /\ claudeBranch \in ClaudeBranches
    /\ useCommitSigning \in BOOLEAN
    /\ env \in Envs
    /\ pc \in { "start", "awaitExists", "awaitHeads", "awaitStatus", "awaitAdd",
                "awaitCommit", "awaitPush", "awaitDelete", "done", "thrown" }
    /\ shouldDeleteBranch \in BOOLEAN
    /\ branchExistsRemotely \in BOOLEAN
    /\ result.returned = Done

\* the existence query answered that the working branch exists
ExistsRemotely == resp.exists.state = "ok"

\* both head queries succeeded and the heads differ
HeadsDiffer ==
    /\ resp.base.state = "ok"
    /\ resp.claude.state = "ok"
    /\ resp.base.sha # resp.claude.sha

\* `git status --porcelain` succeeded and printed nothing / something
StatusClean == resp.status.state = "ok" /\ resp.status.stdout = <<>>
StatusDirty == resp.status.state = "ok" /\ resp.status.stdout # <<>>

LinkReturned ==
    /\ result.returned
    /\ result.shouldDeleteBranch = FALSE
    /\ result.branchLink # ""

CommitSequence ==
    << "git status --porcelain", "git add -A", "git commit -m", "git push origin" >>

(***************************************************************************)
(* Properties of checkAndCommitOrDeleteBranch.                             *)
(***************************************************************************)

\* C1: a branch-delete request is issued only in a call where both head
\* queries succeeded with the same commit SHA and, in addition, either
\* useCommitSigning is true or `git status --porcelain` succeeded with empty
\* output; in every other execution no delete request is issued.
C1_DeleteOnlyWhenNoWork ==
    DeleteCalls # <<>> =>
        /\ HeadsEqual
        /\ useCommitSigning \/ StatusClean

\* C1 witness: a call without commit signing that issued the delete request
\* after a clean status, and returned
C1_Witness ==
    /\ Done
    /\ ~useCommitSigning
    /\ StatusClean
    /\ Len(DeleteCalls) = 1

\* C2 as stated: with the branch on the remote, equal heads, no commit
\* signing and a dirty working tree, the call runs stage-all, commit and push
\* in that order and returns shouldDeleteBranch = false with a non-empty link.
C2_AlwaysCommitsAndPushes ==
    (Done /\ ExistsRemotely /\ HeadsEqual /\ ~useCommitSigning /\ StatusDirty) =>
        /\ ShellOps = CommitSequence
        /\ LinkReturned

\* C2 amended: under the same conditions the call runs stage-all, then commit
\* if stage-all succeeded, then push to the working branch if commit
\* succeeded (a failed command ends the sequence), nothing else, and in every
\* case returns shouldDeleteBranch = false with a non-empty branchLink.
C2_CommitsAndPushesWhileCommandsSucceed ==
    (Done /\ ExistsRemotely /\ HeadsEqual /\ ~useCommitSigning /\ StatusDirty) =>
        LET n == 2 + (IF resp.add.state = "ok" THEN 1 ELSE 0)
                   + (IF resp.add.state = "ok" /\ resp.commit.state = "ok" THEN 1 ELSE 0)
        IN  /\ ShellOps = SubSeq(CommitSequence, 1, n)
            /\ n = 4 => ShellCalls[4].arg = BranchName(claudeBranch)
            /\ LinkReturned

\* C2 witness: the dirty tree was staged, committed and pushed, and the call
\* returned
C2_Witness ==
    /\ Done
    /\ ExistsRemotely /\ HeadsEqual /\ ~useCommitSigning /\ StatusDirty
    /\ resp.push.state = "ok"
    /\ Len(ShellCalls) = 4

\* C3: with the branch on the remote, equal heads, no commit signing and a
\* status that succeeds with no changes, the call returns exactly
\* {shouldDeleteBranch: true, branchLink: ""} and runs no stage, commit or
\* push command.
C3_CleanTreeMarksForDeletion ==
    (Done /\ ExistsRemotely /\ HeadsEqual /\ ~useCommitSigning /\ StatusClean) =>
        /\ result = Returned(TRUE, "")
        /\ ShellOps = << "git status --porcelain" >>

\* C3 witness: such a call returned
C3_Witness ==
    /\ Done
    /\ ExistsRemotely /\ HeadsEqual /\ ~useCommitSigning /\ StatusClean
    /\ resp.delete.state = "ok"

\* C4: when the branch exists remotely and either head query of the
\* comparison fails, the call returns shouldDeleteBranch = false with a
\* non-empty branchLink and issues no shell command and no delete request.
C4_FailedComparisonKeepsBranch ==
    (Done /\ ExistsRemotely
          /\ (resp.base.state = "fail" \/ resp.claude.state = "fail")) =>
        /\ LinkReturned
        /\ ShellCalls = <<>>
        /\ DeleteCalls = <<>>

\* C4 witness: the base head was read, the working branch's head query
\* failed, and the call returned
C4_Witness ==
    /\ Done
    /\ ExistsRemotely
    /\ resp.base.state = "ok"
    /\ resp.claude.state = "fail"

\* C5: with equal heads and no commit signing, if the status query or any of
\* the following stage, commit or push commands fails, the call returns
\* shouldDeleteBranch = false with a non-empty branchLink and issues no delete
\* request.
C5_FailedCommandKeepsBranch ==
    (Done /\ HeadsEqual /\ ~useCommitSigning
          /\ \E c \in {"status", "add", "commit", "push"} : resp[c].state = "fail") =>
        /\ LinkReturned
        /\ DeleteCalls = <<>>

\* C5 witness: the status query itself failed and the call returned
C5_Witness ==
    /\ Done
    /\ HeadsEqual /\ ~useCommitSigning
    /\ resp.status.state = "fail"

\* C5 second case reached as well: the push failed after a commit
C5_WitnessPush ==
    /\ Done
    /\ HeadsEqual /\ ~useCommitSigning
    /\ resp.push.state = "fail"

\* C6: when the branch is marked for deletion and the delete request fails
\* (rejection or a response that is not ok), the failure is not propagated
\* and the call returns {shouldDeleteBranch: true, branchLink: ""}, the value
\* it returns when the delete succeeds.
C6_DeleteFailureSwallowed ==
    resp.delete.state # "none" =>
        /\ Done
        /\ result = Returned(TRUE, "")

\* C6 witness: the Gitea delete answered with a response that is not ok
C6_Witness ==
    /\ resp.delete.state = "fail"
    /\ resp.delete.how = "not ok"
    /\ Done

\* C7: with the branch on the remote, equal heads and commit signing, the
\* branch is marked for deletion (shouldDeleteBranch = true, branchLink = "")
\* without any status, stage, commit or push command being run.
C7_SigningMarksForDeletion ==
    (ExistsRemotely /\ HeadsEqual /\ useCommitSigning) =>
        /\ shouldDeleteBranch
        /\ branchLink = ""
        /\ ShellCalls = <<>>
        /\ Done => result = Returned(TRUE, "")

\* C7 witness: such a call returned
C7_Witness ==
    /\ Done
    /\ ExistsRemotely /\ HeadsEqual /\ useCommitSigning

\* C8: when the branch exists remotely and its head differs from the base
\* head, the call returns shouldDeleteBranch = false with a non-empty
\* branchLink and issues no shell command and no delete request, whatever
\* useCommitSigning is.
C8_DifferentHeadsKeepBranch ==
    (ExistsRemotely /\ HeadsDiffer) =>
        /\ Done
        /\ LinkReturned
        /\ ShellCalls = <<>>
        /\ DeleteCalls = <<>>

\* C8 witness: such a call with commit signing returned
C8_Witness ==
    /\ Done
    /\ ExistsRemotely /\ HeadsDiffer
    /\ useCommitSigning

\* C9: the call returns exactly {shouldDeleteBranch: false, branchLink: ""}
\* when no working branch is given (then with no API call and no shell
\* command at all) and when the existence query reports the branch as not
\* found (then with no head comparison, no shell command, no delete request).
C9_NoBranchOrMissingBranch ==
    /\ (Done /\ (~claudeBranch.def \/ claudeBranch.segs = <<>>)) =>
            /\ result = Returned(FALSE, "")
            /\ calls = <<>>
    /\ (pc # "awaitExists" /\ resp.exists.state = "fail" /\ resp.exists.status = 404) =>
            /\ Done
            /\ result = Returned(FALSE, "")
            /\ calls = << GetBranchCall(BranchName(claudeBranch)) >>
            /\ resp.base = NotAsked /\ resp.claude = NotAsked

\* C9 witness: the existence query answered 404 and the call returned
C9_Witness ==
    /\ Done
    /\ resp.exists.state = "fail"
    /\ resp.exists.status = 404

\* C9 first case reached as well: a call without a branch returned
C9_WitnessNoBranch ==
    /\ Done
    /\ ~claudeBranch.def

\* C10: exactly one delete request is issued in a call if and only if the
\* call returns shouldDeleteBranch = true; the request is the direct
\* branch-deletion HTTP DELETE when the Gitea dialect is active and the
\* git-ref deletion of heads/<branch> otherwise, never both.
C10_OneDeleteOfTheActiveDialect ==
    /\ Len(DeleteCalls) <= 1
    /\ Done => (Len(DeleteCalls) = 1 <=> result.shouldDeleteBranch)
    /\ DeleteCalls # <<>> =>
         IF env.GITEA_API_URL.def /\ env.GITEA_API_URL.str # ""
         THEN DeleteCalls[1].op = "fetch DELETE"
         ELSE /\ DeleteCalls[1].op = "git.deleteRef"
              /\ DeleteCalls[1].arg = "heads/" \o BranchName(claudeBranch)

\* C10 witness: a call under the GitHub dialect whose GITEA_API_URL is set
\* but empty deleted the ref and returned
C10_Witness ==
    /\ Done
    /\ result.shouldDeleteBranch
    /\ env.GITEA_API_URL = Str("")
    /\ Len(DeleteCalls) = 1

(***************************************************************************)
(***************************************************************************)
(* fetchGitHubData (data fetcher): the issue or pull request, its          *)
(* comments, its changed files with their hashes, and the comment set      *)
(* handed to downloadCommentImages.                                        *)
(***************************************************************************)
(***************************************************************************)

(***************************************************************************)
(* Bounds.                                                                 *)
(***************************************************************************)
\* largest number of comments issues.listComments returns
MaxListed == 2
\* largest number of files pulls.listFiles returns
MaxFiles == 2

\* all sequences over S of length at most n
SeqsUpTo(S, n) == UNION { [1..k -> S] : k \in 0..n }

(***************************************************************************)
(* Bodies.  A body is null/undefined or a string; a string is the list of  *)
(* its pieces, each a non-empty run of text or one Markdown image, so the  *)
(* empty list is the empty string.                                         *)
(***************************************************************************)
NullBody == [def |-> FALSE, toks |-> <<>>]
Body(toks) == [def |-> TRUE, toks |-> toks]
\* JS truthiness of a body
BodyTruthy(b) == b.def /\ b.toks # <<>>
\* body || ""
BodyOrEmpty(b) == IF BodyTruthy(b) THEN b ELSE Body(<<>>)

TextPiece == [kind |-> "text"]

\* the bodies the platform returns for an issue, a pull request or a comment
RawBodies == { NullBody, Body(<<>>), Body(<< TextPiece >>) }

(***************************************************************************)
(* Character strings: the strings whose characters the code looks at.      *)
(***************************************************************************)
LowerCase == << "a","b","c","d","e","f","g","h","i","j","k","l","m",
                "n","o","p","q","r","s","t","u","v","w","x","y","z" >>
UpperCase == << "A","B","C","D","E","F","G","H","I","J","K","L","M",
                "N","O","P","Q","R","S","T","U","V","W","X","Y","Z" >>

\* String.prototype.toUpperCase, character by character
UpperChar(c) ==
    IF \E n \in 1..Len(LowerCase) : LowerCase[n] = c
    THEN UpperCase[CHOOSE n \in 1..Len(LowerCase) : LowerCase[n] = c]
    ELSE c
ToUpperCase(s) == [n \in 1..Len(s) |-> UpperChar(s[n])]

\* file statuses of the two platforms' file listings: GitHub reports a
\* removed file as "removed", Gitea as "deleted"
StatusRemoved == << "r","e","m","o","v","e","d" >>
StatusDeleted == << "d","e","l","e","t","e","d" >>
StatusModified == << "m","o","d","i","f","i","e","d" >>
\* the status field of a listed file: a status string, or absent
NoStatus == [def |-> FALSE, chars |-> <<>>]
Status(chars) == [def |-> TRUE, chars |-> chars]
FileStatuses ==
    { NoStatus, Status(StatusModified), Status(StatusRemoved), Status(StatusDeleted) }
\* the statuses by which a file listing reports a removed file
RemovalStatuses == { Status(StatusRemoved), Status(StatusDeleted) }

\* the literals of the code
MODIFIED == << "M","O","D","I","F","I","E","D" >>
DELETED == << "D","E","L","E","T","E","D" >>
ShaDeleted == << "d","e","l","e","t","e","d" >>
ShaUnknown == << "u","n","k","n","o","w","n" >>

(***************************************************************************)
(* What the platform and git answer.                                       *)
(***************************************************************************)
RequestFailures == { [state |-> "fail", status |-> st] : st \in {404, 500} }

\* pulls.get / issues.get
EntityResponses ==
    { [state |-> "ok", body |-> b] : b \in RawBodies } \cup RequestFailures

\* issues.listComments: the n-th listed comment has id n
RawComment(n, b) == [id |-> n, body |-> b]
ListCommentsResponses ==
    { [state |-> "ok", data |-> [n \in 1..Len(bs) |-> RawComment(n, bs[n])]] :
        bs \in SeqsUpTo(RawBodies, MaxListed) }
    \cup RequestFailures

\* pulls.listFiles: the n-th listed file is file<n>
RawFile(n, st) == [filename |-> "file" \o ToString(n), status |-> st]
ListFilesResponses ==
    { [state |-> "ok", data |-> [n \in 1..Len(sts) |-> RawFile(n, sts[n])]] :
        sts \in SeqsUpTo(FileStatuses, MaxFiles) }
    \cup RequestFailures

\* execFileSync("git", ["hash-object", path]): the hash and a newline, or
\* an exception (no such file, git missing)
HashResults ==
    { [state |-> "ok", stdout |-> << "3", "b", "\n" >>],
      [state |-> "ok", stdout |-> << "e", "6", "\n" >>],
      [state |-> "fail"] }

\* downloadCommentImages resolves with its map, or rejects when the download
\* directory cannot be created (fs.mkdir is outside every try block)
DownloadResults == { [state |-> "ok"], [state |-> "fail"] }

\* users.getByUsername for the display name
UserResults ==
    { [state |-> "ok", name |-> Str("Ada")], [state |-> "ok", name |-> Undefined],
      [state |-> "fail"] }

(***************************************************************************)
(* The pure steps of fetchGitHubData.                                      *)
(***************************************************************************)
PrNumber == "7"

\* const [owner, repo] = repository.split("/"); if (!owner || !repo) throw
RepositoryValid(parts) == Len(parts) >= 2 /\ parts[1] # "" /\ parts[2] # ""
Repositories == { << "acme", "widgets" >>, << "acme" >>, << "", "widgets" >> }

\* the requests of the call
EntityCall(pr) ==
    [kind |-> "api", op |-> IF pr THEN "pulls.get" ELSE "issues.get", arg |-> PrNumber]
ListCommentsCall == [kind |-> "api", op |-> "issues.listComments", arg |-> PrNumber]
ListFilesCall == [kind |-> "api", op |-> "pulls.listFiles", arg |-> PrNumber]
HashCall(path) == [kind |-> "exec", op |-> "git hash-object", arg |-> path]
DownloadCall(cs) == [kind |-> "download", op |-> "downloadCommentImages", arg |-> cs]
UserCall(login) == [kind |-> "api", op |-> "users.getByUsername", arg |-> login]

\* mutant: the comment listing is requested together with the entity
CallsAtStartParallel(pr) == << EntityCall(pr), ListCommentsCall >>

\* the requests issued before the first await: the primary entity alone
CallsAtStart(pr) == << EntityCall(pr) >>

\* contextData, as far as the call reads it again: body: data.body || ""
ContextFrom(r) == [def |-> TRUE, body |-> BodyOrEmpty(r.body)]

\* commentsResponse.data.map(...): id.toString(), body || ""
MapComment(raw) ==
    [id |-> ToString(raw.id), databaseId |-> ToString(raw.id),
     body |-> BodyOrEmpty(raw.body)]
MapComments(data) == [n \in 1..Len(data) |-> MapComment(data[n])]

\* the try/catch around issues.listComments: [] on failure
CommentsFrom(r) == IF r.state = "ok" THEN MapComments(r.data) ELSE <<>>

\* file.status?.toUpperCase() || "MODIFIED"
ChangeType(st) ==
    IF st.def /\ ToUpperCase(st.chars) # <<>> THEN ToUpperCase(st.chars) ELSE MODIFIED

\* filesResponse.data.map(...)
MapFile(raw) == [path |-> raw.filename, changeType |-> ChangeType(raw.status)]
MapFiles(data) == [n \in 1..Len(data) |-> MapFile(data[n])]

\* the try/catch around pulls.listFiles: [] on failure
FilesFrom(r) == IF r.state = "ok" THEN MapFiles(r.data) ELSE <<>>

\* if (file.changeType === "DELETED"): no hash is computed
SkipsHash(file) == file.changeType = DELETED

\* mutant: the output is not trimmed
ShaOfHashUntrimmed(r) == IF r.state = "ok" THEN r.stdout ELSE ShaUnknown

\* the sha of a hashed file: the trimmed output, "unknown" on an exception
ShaOfHash(r) == IF r.state = "ok" THEN Trim(r.stdout) ELSE ShaUnknown

WithSha(file, sha) == [path |-> file.path, changeType |-> file.changeType, sha |-> sha]

\* mutant: no filter on the body
IssueCommentsUnfiltered(cs) ==
    [n \in 1..Len(cs) |->
        [type |-> "issue_comment", id |-> cs[n].databaseId, body |-> cs[n].body]]

\* comments.filter((c) => c.body).map(...)
IssueComments(cs) ==
    LET kept == SelectSeq(cs, LAMBDA c : BodyTruthy(c.body))
    IN  [n \in 1..Len(kept) |->
            [type |-> "issue_comment", id |-> kept[n].databaseId, body |-> kept[n].body]]

\* reviewData?.nodes?.filter((r) => r.body).map(...) ?? []
ReviewBodies(rd) ==
    IF ~rd.def THEN <<>>
    ELSE LET kept == SelectSeq(rd.nodes, LAMBDA r : BodyTruthy(r.body))
         IN  [n \in 1..Len(kept) |->
                 [type |-> "review_body", id |-> kept[n].databaseId, body |-> kept[n].body]]

RECURSIVE Flatten(_)
Flatten(ss) == IF ss = <<>> THEN <<>> ELSE Head(ss) \o Flatten(Tail(ss))

\* reviewData?.nodes?.flatMap((r) => r.comments?.nodes ?? []).filter(...)
ReviewComments(rd) ==
    IF ~rd.def THEN <<>>
    ELSE LET all == Flatten([n \in 1..Len(rd.nodes) |-> rd.nodes[n].comments])
             kept == SelectSeq(all, LAMBDA c : BodyTruthy(c.body))
         IN  [n \in 1..Len(kept) |->
                 [type |-> "review_comment", id |-> kept[n].databaseId, body |-> kept[n].body]]

\* the entity's own body, if it has content
MainBody(cd, pr) ==
    IF BodyTruthy(cd.body)
    THEN << [type |-> IF pr THEN "pr_body" ELSE "issue_body", id |-> PrNumber,
             body |-> cd.body] >>
    ELSE <<>>

\* allComments = [...mainBody, ...issueComments, ...reviewBodies, ...reviewComments]
AllComments(cd, pr, cs, rd) ==
    MainBody(cd, pr) \o IssueComments(cs) \o ReviewBodies(rd) \o ReviewComments(rd)

\* reviewData = { nodes: [] } for a pull request, null for an issue
EmptyReviews == [def |-> TRUE, nodes |-> <<>>]
NoReviews == [def |-> FALSE]

(***************************************************************************)
(* One call of fetchGitHubData.                                            *)
(***************************************************************************)
\* an environment with none of the variables set
EmptyEnv ==
    [ GITEA_API_URL |-> Undefined, GITEA_SERVER_URL |-> Undefined,
      GITHUB_SERVER_URL |-> Undefined, GITHUB_RUN_NUMBER |-> Undefined ]

FetchNoResponses ==
    [ entity |-> NotAsked, comments |-> NotAsked, files |-> NotAsked,
      hash |-> <<>>, download |-> NotAsked, user |-> NotAsked ]

FetchReturned(cd, cs, fs, fsha, rd, name) ==
    [ returned |-> TRUE, contextData |-> cd, comments |-> cs, changedFiles |-> fs,
      changedFilesWithSHA |-> fsha, reviewData |-> rd, triggerDisplayName |-> name ]

FetchInit ==
    /\ repository \in Repositories
    /\ isPR \in BOOLEAN
    /\ triggerUsername \in { Undefined, Str("ada") }
    /\ contextData = [def |-> FALSE]
    /\ comments = <<>>
    /\ changedFiles = <<>>
    /\ changedFilesWithSHA = <<>>
    /\ reviewData = NoReviews
    /\ env = EmptyEnv
    /\ pc = "start"
    /\ calls = <<>>
    /\ resp = FetchNoResponses
    /\ result = NoResult
    /\ BranchIdle
    /\ ImagesIdle
    /\ ValidationIdle

fetchArgs == << repository, isPR, triggerUsername, env >>

\* lines 228-288: assemble the comment set and call downloadCommentImages;
\* `cs` are the requests issued so far, `cmts` is the local `comments`
StartDownload(cs, cmts, rd) ==
    /\ calls' = Append(cs, DownloadCall(AllComments(contextData, isPR, cmts, rd)))
    /\ pc' = "awaitDownload"

\* lines 80-98: the repository is split and the primary entity requested
FetchCall ==
    /\ pc = "start"
    /\ IF RepositoryValid(repository)
       THEN /\ calls' = CallsAtStart(isPR)
            /\ pc' = "awaitEntity"
       ELSE /\ calls' = calls
            /\ pc' = "thrown"
    /\ UNCHANGED << fetchArgs, contextData, comments, changedFiles,
                    changedFilesWithSHA, reviewData, resp, result,
                    branchVars, imageVars,
                    validationVars >>

\* lines 94-123 and 157-178, 191-194: the primary entity settles; a failure
\* is rethrown by the outer catch, a success asks for the comments
EntitySettled ==
    /\ pc = "awaitEntity"
    /\ \E r \in EntityResponses :
        /\ resp' = [resp EXCEPT !.entity = r]
        /\ IF r.state = "ok"
           THEN /\ contextData' = ContextFrom(r)
                /\ calls' = Append(calls, ListCommentsCall)
                /\ pc' = "awaitComments"
           ELSE /\ contextData' = contextData
                /\ calls' = calls
                /\ pc' = "thrown"
    /\ UNCHANGED << fetchArgs, comments, changedFiles, changedFilesWithSHA,
                    reviewData, result, branchVars, imageVars,
                    validationVars >>

\* mutant: no try/catch around the comment listing, its failure reaches the
\* outer catch
CommentsSettledFailFast ==
    /\ pc = "awaitComments"
    /\ \E r \in ListCommentsResponses :
        /\ resp' = [resp EXCEPT !.comments = r]
        /\ comments' = CommentsFrom(r)
        /\ IF r.state # "ok"
           THEN calls' = calls /\ pc' = "thrown"
           ELSE IF isPR
           THEN /\ calls' = Append(calls, ListFilesCall)
                /\ pc' = "awaitFiles"
           ELSE StartDownload(calls, CommentsFrom(r), reviewData)
    /\ UNCHANGED << fetchArgs, contextData, changedFiles, changedFilesWithSHA,
                    reviewData, result, branchVars, imageVars,
                    validationVars >>

\* lines 118-142 and 173-189: the comment listing settles; a pull request
\* asks for its files next, an issue goes on to line 196
CommentsSettled ==
    /\ pc = "awaitComments"
    /\ \E r \in ListCommentsResponses :
        /\ resp' = [resp EXCEPT !.comments = r]
        /\ comments' = CommentsFrom(r)
        /\ IF isPR
           THEN /\ calls' = Append(calls, ListFilesCall)
                /\ pc' = "awaitFiles"
           ELSE StartDownload(calls, CommentsFrom(r), reviewData)
    /\ UNCHANGED << fetchArgs, contextData, changedFiles, changedFilesWithSHA,
                    reviewData, result, branchVars, imageVars,
                    validationVars >>

\* lines 137-154 and 196-198: the file listing settles
FilesSettled ==
    /\ pc = "awaitFiles"
    /\ \E r \in ListFilesResponses :
        /\ resp' = [resp EXCEPT !.files = r]
        /\ changedFiles' = FilesFrom(r)
        /\ reviewData' = EmptyReviews
        /\ IF isPR /\ Len(FilesFrom(r)) > 0
           THEN /\ calls' = calls
                /\ pc' = "hashing"
           ELSE StartDownload(calls, comments, EmptyReviews)
    /\ UNCHANGED << fetchArgs, contextData, comments, changedFilesWithSHA,
                    result, branchVars, imageVars,
                    validationVars >>

\* lines 199-225: the next file of changedFiles.map; after the last one the
\* call goes on to line 228
HashFile ==
    /\ pc = "hashing"
    /\ LET n == Len(changedFilesWithSHA) + 1
           file == changedFiles[n]
           last == n = Len(changedFiles)
       IN
        \E r \in (IF SkipsHash(file) THEN { NotAsked } ELSE HashResults) :
            LET cs == IF SkipsHash(file) THEN calls
                      ELSE Append(calls, HashCall(file.path))
                sha == IF SkipsHash(file) THEN ShaDeleted ELSE ShaOfHash(r)
            IN  /\ resp' = [resp EXCEPT !.hash = Append(@, r)]
                /\ changedFilesWithSHA' = Append(changedFilesWithSHA, WithSha(file, sha))
                /\ IF last
                   THEN StartDownload(cs, comments, reviewData)
                   ELSE calls' = cs /\ pc' = pc
    /\ UNCHANGED << fetchArgs, contextData, comments, changedFiles, reviewData,
                    result, branchVars, imageVars,
                    validationVars >>

\* line 296: return
FetchReturn(name) ==
    /\ pc' = "done"
    /\ result' = FetchReturned(contextData, comments, changedFiles,
                               changedFilesWithSHA, reviewData, name)

\* lines 283-294: downloadCommentImages settles; its rejection propagates
DownloadSettled ==
    /\ pc = "awaitDownload"
    /\ \E r \in DownloadResults :
        /\ resp' = [resp EXCEPT !.download = r]
        /\ IF r.state # "ok"
           THEN pc' = "thrown" /\ calls' = calls /\ result' = result
           ELSE IF Truthy(triggerUsername)
           THEN /\ calls' = Append(calls, UserCall(triggerUsername.str))
                /\ pc' = "awaitUser"
                /\ result' = result
           ELSE calls' = calls /\ FetchReturn(Undefined)
    /\ UNCHANGED << fetchArgs, contextData, comments, changedFiles,
                    changedFilesWithSHA, reviewData, branchVars, imageVars,
                    validationVars >>

\* lines 308-321 and 296-304: the user lookup settles (null on failure)
UserSettled ==
    /\ pc = "awaitUser"
    /\ \E r \in UserResults :
        /\ resp' = [resp EXCEPT !.user = r]
        /\ FetchReturn(IF r.state = "ok" THEN r.name ELSE Undefined)
    /\ UNCHANGED << fetchArgs, contextData, comments, changedFiles,
                    changedFilesWithSHA, reviewData, calls, branchVars, imageVars,
                    validationVars >>

FetchNext ==
    \/ FetchCall
    \/ EntitySettled
    \/ CommentsSettled
    \/ FilesSettled
    \/ HashFile
    \/ DownloadSettled
    \/ UserSettled

SpecFetch == FetchInit /\ [][FetchNext]_vars

(***************************************************************************)
(* Properties of fetchGitHubData.                                          *)
(***************************************************************************)
Thrown == pc = "thrown"
OpsCalled == { calls[n].op : n \in 1..Len(calls) }
EntityOk == resp.entity.state = "ok"

\* C11: if the primary entity fetch (pulls.get for a PR, issues.get for an
\* issue) fails, the call throws and performs no comment listing, no file
\* listing, no hashing, no downloadCommentImages call and no user lookup.
C11_EntityFailureIsFatal ==
    resp.entity.state = "fail" =>
        /\ Thrown
        /\ ~result.returned
        /\ OpsCalled \subseteq { "pulls.get", "issues.get" }
        /\ Len(calls) = 1

\* C11 witness: pulls.get of a pull request answered 404
C11_Witness ==
    /\ isPR
    /\ resp.entity.state = "fail"
    /\ resp.entity.status = 404
    /\ Thrown

\* C12 as stated: once the primary entity fetch has succeeded, a failed
\* comment listing yields comments = [] and a failed file listing yields
\* changedFiles = [], and the call still returns a result instead of throwing.
C12_ListingFailureStillReturns ==
    (EntityOk /\ (resp.comments.state = "fail" \/ resp.files.state = "fail")
              /\ (Done \/ Thrown)) =>
        /\ Done
        /\ resp.comments.state = "fail" => result.comments = <<>>
        /\ resp.files.state = "fail" => result.changedFiles = <<>>

\* C12 amended: once the primary entity fetch has succeeded, a failed comment
\* listing yields comments = [] and a failed file listing yields
\* changedFiles = [], each independently of the other (after a failed comment
\* listing the file listing of a PR is still requested and its files are
\* kept; after a failed file listing the listed comments are kept), and
\* neither failure makes the call throw: it returns a result unless
\* downloadCommentImages itself rejects.
C12_ListingFailuresDegrade ==
    EntityOk =>
        /\ resp.comments.state = "fail" =>
              /\ comments = <<>>
              /\ isPR => "pulls.listFiles" \in OpsCalled
              /\ (isPR /\ resp.files.state = "ok") =>
                    Len(changedFiles) = Len(resp.files.data)
        /\ resp.files.state = "fail" =>
              /\ changedFiles = <<>>
              /\ resp.comments.state = "ok" =>
                    Len(comments) = Len(resp.comments.data)
        /\ Thrown => resp.download.state = "fail"
        /\ Done => /\ result.comments = comments
                   /\ result.changedFiles = changedFiles

\* C12 witness: the comment listing failed, two files were listed and kept,
\* and the call returned
C12_Witness ==
    /\ Done
    /\ isPR
    /\ resp.comments.state = "fail"
    /\ resp.files.state = "ok"
    /\ Len(result.changedFiles) = 2
    /\ result.comments = <<>>

\* C13: every changed file that the file listing reports as removed gets
\* sha = "deleted" and no hash command is executed for it, for every removal
\* status value the file listing can return.
C13_RemovedFilesGetDeletedSha ==
    \A n \in 1..Len(changedFilesWithSHA) :
        resp.files.data[n].status \in RemovalStatuses =>
            /\ changedFilesWithSHA[n].sha = ShaDeleted
            /\ resp.hash[n].state = "none"

\* C14: changedFilesWithSHA has exactly one entry per entry of changedFiles,
\* in the same order; a hashing failure gives that file sha = "unknown", does
\* not make the call throw, and leaves the sha of every other file as its own
\* hash result determines it.
C14_OneShaPerFileInOrder ==
    /\ Len(changedFilesWithSHA) <= Len(changedFiles)
    /\ Len(resp.hash) = Len(changedFilesWithSHA)
    /\ ("downloadCommentImages" \in OpsCalled) =>
            Len(changedFilesWithSHA) = Len(changedFiles)
    /\ \A n \in 1..Len(changedFilesWithSHA) :
        /\ changedFilesWithSHA[n].path = changedFiles[n].path
        /\ changedFilesWithSHA[n].changeType = changedFiles[n].changeType
        /\ resp.hash[n].state = "fail" => changedFilesWithSHA[n].sha = ShaUnknown
        /\ resp.hash[n].state = "ok" =>
              changedFilesWithSHA[n].sha \o << "\n" >> = resp.hash[n].stdout
    /\ (Thrown /\ resp.hash # <<>>) => resp.download.state = "fail"
    /\ Done => result.changedFilesWithSHA = changedFilesWithSHA

\* C14 witness: the first file's hash failed, the second file's succeeded,
\* and the call returned
C14_Witness ==
    /\ Done
    /\ Len(resp.hash) = 2
    /\ resp.hash[1].state = "fail"
    /\ resp.hash[2].state = "ok"

\* C15: every comment passed to downloadCommentImages has a non-empty body:
\* top-level comments, review bodies and review comments with empty bodies
\* are filtered out, and the entity's own body is included only when it is
\* non-empty.
C15_OnlyNonEmptyBodiesPassedOn ==
    \A n \in 1..Len(calls) :
        calls[n].kind = "download" =>
            \A m \in 1..Len(calls[n].arg) :
                /\ calls[n].arg[m].body.def
                /\ calls[n].arg[m].body.toks # <<>>

\* C15 witness: of two listed comments the one with an empty body was left
\* out, and the entity had no body
C15_Witness ==
    /\ pc = "awaitDownload"
    /\ resp.comments.state = "ok"
    /\ Len(resp.comments.data) = 2
    /\ resp.comments.data[1].body = Body(<<>>)
    /\ resp.entity.body = NullBody
    /\ Len(calls[Len(calls)].arg) = 1

(***************************************************************************)
(***************************************************************************)
(* downloadCommentImages (image downloader): find the attachment images of *)
(* the comments, resolve them through the rendered HTML and download them. *)
(***************************************************************************)
(***************************************************************************)

(***************************************************************************)
(* Bounds.                                                                 *)
(***************************************************************************)
\* largest number of comments passed to downloadCommentImages
MaxImageComments == 2
\* largest number of pieces (runs of text, images) of a comment body
MaxPieces == 2
\* largest number of signed URLs in a rendered body
MaxSigned == 2
\* how many milliseconds Date.now() can advance during a call
MaxTicks == 1

(***************************************************************************)
(* URLs.  A URL is its server, the path area below it, the directories     *)
(* after the area and the trailing path segment (empty when the URL ends   *)
(* with "/"); the trailing segment is a character string.                  *)
(***************************************************************************)
GitHubServer == "https://github.com"
GiteaServer == "https://gitea.example.com"
GitHubArea == "user-attachments/assets"
GiteaArea == "attachments"

Url(base, area, dirs, file) ==
    [base |-> base, area |-> area, dirs |-> dirs, file |-> file]

UrlA == Url(GitHubServer, GitHubArea, <<>>, << "a", ".", "G", "i", "f" >>)
\* .../user-attachments/assets/c/ : nothing after the last "/"
UrlSlash == Url(GitHubServer, GitHubArea, << "c" >>, <<>>)
UrlG == Url(GiteaServer, GiteaArea, <<>>, << "g" >>)

ImagePiece(u) == [kind |-> "image", url |-> u]

\* the pieces of the comment bodies
Pieces ==
    { TextPiece, ImagePiece(UrlA), ImagePiece(UrlSlash), ImagePiece(UrlG) }

CommentTypes ==
    { "issue_comment", "review_comment", "review_body", "issue_body", "pr_body" }

\* the comment sets: the n-th comment has id n
ImageBodies == { Body(ps) : ps \in SeqsUpTo(Pieces, MaxPieces) \ { <<>> } }
ImageComment(n, t, b) == [type |-> t, id |-> ToString(n), body |-> b]
ImageCommentSets ==
    UNION { { [n \in 1..k |-> ImageComment(n, ts[n], bs[n])] :
                ts \in [1..k -> CommentTypes], bs \in [1..k -> ImageBodies] } :
            k \in 0..MaxImageComments }

\* the environments: GitHub, and a Gitea instance
GiteaEnv ==
    [ GITEA_API_URL |-> Str("https://gitea.example.com/api/v1"),
      GITEA_SERVER_URL |-> Str(GiteaServer),
      GITHUB_SERVER_URL |-> Undefined, GITHUB_RUN_NUMBER |-> Undefined ]
ImageEnvs == { EmptyEnv, GiteaEnv }

(***************************************************************************)
(* createImageRegex and matchAll, piece by piece: a piece matches when it  *)
(* is a Markdown image whose URL is the server URL followed by the         *)
(* platform's attachment area and at least one more character.             *)
(***************************************************************************)
AttachmentArea(e) == IF IsGiteaInstance(e) THEN GiteaArea ELSE GitHubArea

MatchesImageRegex(piece, e) ==
    /\ piece.kind = "image"
    /\ piece.url.base = GetServerUrl(e)
    /\ piece.url.area = AttachmentArea(e)
    /\ piece.url.dirs # <<>> \/ piece.url.file # <<>>

\* [...comment.body.matchAll(IMAGE_REGEX)].map((match) => match[1])
MatchedUrls(body, e) ==
    LET hits == SelectSeq(body.toks, LAMBDA piece : MatchesImageRegex(piece, e))
    IN  [n \in 1..Len(hits) |-> hits[n].url]

\* lines 83-97: the comments with at least one match, with their urls
\* a scan that keeps every comment, its matches or none
RECURSIVE CommentsWithImagesAll(_, _)
CommentsWithImagesAll(cs, e) ==
    IF cs = <<>> THEN <<>>
    ELSE << [comment |-> Head(cs), urls |-> MatchedUrls(Head(cs).body, e)] >>
         \o CommentsWithImagesAll(Tail(cs), e)

RECURSIVE CommentsWithImages(_, _)
CommentsWithImages(cs, e) ==
    IF cs = <<>> THEN <<>>
    ELSE LET urls == MatchedUrls(Head(cs).body, e)
             rest == CommentsWithImages(Tail(cs), e)
         IN  IF Len(urls) > 0
             THEN << [comment |-> Head(cs), urls |-> urls] >> \o rest
             ELSE rest

(***************************************************************************)
(* getImageExtension.                                                      *)
(***************************************************************************)
LowerChar(c) ==
    IF \E n \in 1..Len(UpperCase) : UpperCase[n] = c
    THEN LowerCase[CHOOSE n \in 1..Len(UpperCase) : UpperCase[n] = c]
    ELSE c
ToLowerCase(s) == [n \in 1..Len(s) |-> LowerChar(s[n])]

\* png|jpg|jpeg|gif|webp|svg
ImageExtensions ==
    { << "p","n","g" >>, << "j","p","g" >>, << "j","p","e","g" >>,
      << "g","i","f" >>, << "w","e","b","p" >>, << "s","v","g" >> }

Suffix(s, n) == SubSeq(s, Len(s) - n + 1, Len(s))

\* the suffix of n characters is "." and a known extension, in any case
HasExtensionOfLength(filename, n) ==
    /\ Len(filename) >= n
    /\ Suffix(filename, n)[1] = "."
    /\ ToLowerCase(Tail(Suffix(filename, n))) \in ImageExtensions

DefaultExtension == << ".", "p", "n", "g" >>

\* if (!filename) throw new Error("Invalid URL: No filename found")
ExtensionThrows(url) == url.file = <<>>

\* filename.match(/\.(png|jpg|jpeg|gif|webp|svg)$/i): match[0], or ".png"
GetImageExtension(url) ==
    IF HasExtensionOfLength(url.file, 4) THEN Suffix(url.file, 4)
    ELSE IF HasExtensionOfLength(url.file, 5) THEN Suffix(url.file, 5)
    ELSE DefaultExtension

\* path.join(downloadsDir, `image-${Date.now()}-${i}${fileExtension}`)
LocalPath(t, i, ext) ==
    [dir |-> "/tmp/github-images", time |-> t, index |-> i, ext |-> ext]

(***************************************************************************)
(* Map<string, string>: the entries in insertion order.                    *)
(***************************************************************************)
MapKeys(m) == { m[n].key : n \in 1..Len(m) }
\* a has() that never finds the key
MapHasNever(m, k) == FALSE
MapHas(m, k) == k \in MapKeys(m)
MapGet(m, k) == m[CHOOSE n \in 1..Len(m) : m[n].key = k].value
MapSet(m, k, v) ==
    IF MapHas(m, k)
    THEN [n \in 1..Len(m) |-> IF m[n].key = k THEN [key |-> k, value |-> v] ELSE m[n]]
    ELSE Append(m, [key |-> k, value |-> v])

(***************************************************************************)
(* What the platform, the network and the file system answer.              *)
(***************************************************************************)
\* fs.mkdir(downloadsDir, { recursive: true })
MkdirResults == { [state |-> "ok"], [state |-> "fail"] }

\* the j-th signed URL in the rendered HTML of comment `id`
Signed(id, j) == [host |-> "private-user-images.githubusercontent.com",
                  comment |-> id, pos |-> j]

\* the rendered-HTML request: rejected, answered without body_html, or
\* answered with HTML that holds m signed URLs
HtmlResponses ==
    { [state |-> "fail"], [state |-> "ok", html |-> FALSE, signed |-> 0] }
    \cup { [state |-> "ok", html |-> TRUE, signed |-> m] : m \in 0..MaxSigned }

\* a match that yields signed URLs the HTML does not hold
SignedUrlsOfAll(id, r) == [j \in 1..MaxSigned |-> Signed(id, j)]

\* a match that yields the signed URLs in the opposite order
SignedUrlsOfReversed(id, r) == [j \in 1..r.signed |-> Signed(id, r.signed + 1 - j)]

\* bodyHtml.match(signedUrlRegex) || []
SignedUrlsOf(id, r) == [j \in 1..r.signed |-> Signed(id, j)]

\* fetch(signedUrl): a response that is ok or not, or a rejection
ImageFetchResults == { [state |-> "ok"], [state |-> "not ok"], [state |-> "rejected"] }
\* imageResponse.arrayBuffer() and fs.writeFile
IoResults == { [state |-> "ok"], [state |-> "fail"] }

\* Date.now(): the clock stands still or has advanced
ClockReads == { now } \cup (IF now < MaxTicks THEN { now + 1 } ELSE {})

(***************************************************************************)
(* The requests of downloadCommentImages.                                  *)
(***************************************************************************)
MkdirCall == [kind |-> "mkdir", op |-> "fs.mkdir", arg |-> "/tmp/github-images"]

\* the rendered-HTML request of each comment type
HtmlOp(type) ==
    CASE type = "issue_comment" -> "issues.getComment"
      [] type = "review_comment" -> "pulls.getReviewComment"
      [] type = "review_body" -> "pulls.getReview"
      [] type = "issue_body" -> "issues.get"
      [] type = "pr_body" -> "pulls.get"
HtmlCall(c) == [kind |-> "html", op |-> HtmlOp(c.type), arg |-> c.id]

\* fetch(signedUrl) for pair i (counted from 0) of the comment
ImageFetchCall(c, i, original, signedUrl) ==
    [kind |-> "fetch", op |-> "fetch", arg |-> signedUrl,
     original |-> original, comment |-> c.id, index |-> i]
\* fs.writeFile(localPath, buffer): the buffer holds what signedUrl returned
WriteCall(path, signedUrl) ==
    [kind |-> "write", op |-> "fs.writeFile", arg |-> path, bytes |-> signedUrl]

(***************************************************************************)
(* One call of downloadCommentImages.                                      *)
(***************************************************************************)
ImagesNoResponses == [ mkdir |-> NotAsked, html |-> <<>> ]
NoCursor == [k |-> 0, i |-> 0]
ImagesReturned(m) == [returned |-> TRUE, map |-> m]

imageArgs == << imageComments, env, invocation, firstMap >>

ImagesInit ==
    /\ imageComments \in ImageCommentSets
    /\ env \in ImageEnvs
    /\ commentsWithImages = <<>>
    /\ urlToPathMap = <<>>
    /\ cursor = NoCursor
    /\ signedUrls = <<>>
    /\ now = 0
    /\ invocation = 1
    /\ firstMap = <<>>
    /\ pc = "start"
    /\ calls = <<>>
    /\ resp = ImagesNoResponses
    /\ result = NoResult
    /\ BranchIdle
    /\ FetchIdle
    /\ ValidationIdle

\* lines 100-180 and 250: go to comment k of commentsWithImages `cwi` and
\* request its rendered HTML, or return the map after the last comment
ProcessComment(cs, cwi, m, k) ==
    /\ urlToPathMap' = m
    /\ signedUrls' = <<>>
    /\ IF k > Len(cwi)
       THEN /\ calls' = cs
            /\ cursor' = NoCursor
            /\ pc' = "done"
            /\ result' = ImagesReturned(m)
       ELSE /\ calls' = Append(cs, HtmlCall(cwi[k].comment))
            /\ cursor' = [k |-> k, i |-> 0]
            /\ pc' = "awaitHtml"
            /\ result' = result

\* the pairs of the comment being processed, from the shorter list
PairCount(urls, signed) == IF Len(signed) < Len(urls) THEN Len(signed) ELSE Len(urls)

\* lines 198-218: continue the pair loop of comment k at pair i (counted
\* from 1 here): skip the pairs whose original URL is mapped, then derive the
\* extension and the file name and fetch the signed URL.  An exception of
\* getImageExtension is outside the inner try block: the catch at line 236
\* takes it and the loop goes on with the next comment.
NextPair(cs, m, signed, k, i) ==
    LET urls == commentsWithImages[k].urls
        open == { j \in i..PairCount(urls, signed) : ~MapHas(m, urls[j]) }
    IN  IF open = {}
        THEN /\ ProcessComment(cs, commentsWithImages, m, k + 1)
             /\ now' = now
        ELSE LET j == CHOOSE j \in open : \A o \in open : j <= o
             IN  IF ExtensionThrows(urls[j])
                 THEN /\ ProcessComment(cs, commentsWithImages, m, k + 1)
                      /\ now' = now
                 ELSE \E t \in ClockReads :
                        /\ now' = t
                        /\ urlToPathMap' = m
                        /\ signedUrls' = signed
                        /\ cursor' = [k |-> k, i |-> j,
                                      path |-> LocalPath(t, j - 1, GetImageExtension(urls[j]))]
                        /\ calls' = Append(cs, ImageFetchCall(commentsWithImages[k].comment,
                                                              j - 1, urls[j], signed[j]))
                        /\ pc' = "awaitFetch"
                        /\ result' = result

\* lines 73-76: the map is created and the download directory requested
ImagesCall ==
    /\ pc = "start"
    /\ calls' = Append(calls, MkdirCall)
    /\ pc' = "awaitMkdir"
    /\ UNCHANGED << imageArgs, commentsWithImages, urlToPathMap, cursor, signedUrls,
                    now, resp, result, branchVars, fetchVars,
                    validationVars >>

\* an fs.mkdir continuation that would request the HTML of every comment at
\* once
MkdirSettledParallel ==
    /\ pc = "awaitMkdir"
    /\ \E r \in MkdirResults :
        /\ resp' = [resp EXCEPT !.mkdir = r]
        /\ IF r.state = "ok"
           THEN LET cwi == CommentsWithImages(imageComments, env)
                IN  /\ commentsWithImages' = cwi
                    /\ urlToPathMap' = urlToPathMap
                    /\ signedUrls' = <<>>
                    /\ calls' = calls \o [n \in 1..Len(cwi) |-> HtmlCall(cwi[n].comment)]
                    /\ cursor' = IF cwi = <<>> THEN NoCursor ELSE [k |-> 1, i |-> 0]
                    /\ pc' = IF cwi = <<>> THEN "done" ELSE "awaitHtml"
                    /\ result' = IF cwi = <<>> THEN ImagesReturned(urlToPathMap) ELSE result
           ELSE /\ pc' = "thrown"
                /\ UNCHANGED << commentsWithImages, urlToPathMap, cursor,
                                signedUrls, calls, result >>
    /\ UNCHANGED << imageArgs, now, branchVars, fetchVars,
                    validationVars >>

\* lines 76-100: fs.mkdir settles; its rejection is not caught.  Then the
\* comments are scanned for images and the first of them is processed.
MkdirSettled ==
    /\ pc = "awaitMkdir"
    /\ \E r \in MkdirResults :
        /\ resp' = [resp EXCEPT !.mkdir = r]
        /\ IF r.state = "ok"
           THEN /\ commentsWithImages' = CommentsWithImages(imageComments, env)
                /\ ProcessComment(calls, CommentsWithImages(imageComments, env),
                                  urlToPathMap, 1)
           ELSE /\ pc' = "thrown"
                /\ UNCHANGED << commentsWithImages, urlToPathMap, cursor,
                                signedUrls, calls, result >>
    /\ UNCHANGED << imageArgs, now, branchVars, fetchVars,
                    validationVars >>

\* a rendered-HTML request whose rejection would end the call
HtmlSettledFailFast ==
    /\ pc = "awaitHtml"
    /\ \E r \in HtmlResponses :
        /\ resp' = [resp EXCEPT !.html = Append(@, r)]
        /\ IF r.state = "ok" /\ r.html
           THEN NextPair(calls, urlToPathMap,
                         SignedUrlsOf(commentsWithImages[cursor.k].comment.id, r),
                         cursor.k, 1)
           ELSE IF r.state = "fail"
           THEN /\ pc' = "thrown"
                /\ UNCHANGED << urlToPathMap, cursor, signedUrls, now, calls, result >>
           ELSE /\ ProcessComment(calls, commentsWithImages, urlToPathMap, cursor.k + 1)
                /\ now' = now
    /\ UNCHANGED << imageArgs, commentsWithImages, branchVars, fetchVars,
                    validationVars >>

\* lines 101-198 and 236-247: the rendered-HTML request settles.  A rejection
\* (caught at once for the review types, by the catch at line 236 for the
\* others) and a missing body_html both end the comment.
HtmlSettled ==
    /\ pc = "awaitHtml"
    /\ \E r \in HtmlResponses :
        /\ resp' = [resp EXCEPT !.html = Append(@, r)]
        /\ IF r.state = "ok" /\ r.html
           THEN NextPair(calls, urlToPathMap,
                         SignedUrlsOf(commentsWithImages[cursor.k].comment.id, r),
                         cursor.k, 1)
           ELSE /\ ProcessComment(calls, commentsWithImages, urlToPathMap, cursor.k + 1)
                /\ now' = now
    /\ UNCHANGED << imageArgs, commentsWithImages, branchVars, fetchVars,
                    validationVars >>

\* lines 218-225 and 232-234: fetch settles; a rejection and a response that
\* is not ok are caught and the loop goes on with the next pair
ImageFetchSettled ==
    /\ pc = "awaitFetch"
    /\ \E r \in ImageFetchResults :
        IF r.state = "ok"
        THEN /\ pc' = "awaitBuffer"
             /\ UNCHANGED << urlToPathMap, cursor, signedUrls, now, calls, result >>
        ELSE NextPair(calls, urlToPathMap, signedUrls, cursor.k, cursor.i + 1)
    /\ UNCHANGED << imageArgs, commentsWithImages, resp, branchVars, fetchVars,
                    validationVars >>

\* lines 225-228 and 232-234: arrayBuffer settles; then the file is written
BufferSettled ==
    /\ pc = "awaitBuffer"
    /\ \E r \in IoResults :
        IF r.state = "ok"
        THEN /\ calls' = Append(calls, WriteCall(cursor.path, signedUrls[cursor.i]))
             /\ pc' = "awaitWrite"
             /\ UNCHANGED << urlToPathMap, cursor, signedUrls, now, result >>
        ELSE NextPair(calls, urlToPathMap, signedUrls, cursor.k, cursor.i + 1)
    /\ UNCHANGED << imageArgs, commentsWithImages, resp, branchVars, fetchVars,
                    validationVars >>

\* lines 228-234: writeFile settles; on success the URL is mapped
WriteSettled ==
    /\ pc = "awaitWrite"
    /\ \E r \in IoResults :
        LET m == IF r.state = "ok"
                 THEN MapSet(urlToPathMap,
                             commentsWithImages[cursor.k].urls[cursor.i], cursor.path)
                 ELSE urlToPathMap
        IN  NextPair(calls, m, signedUrls, cursor.k, cursor.i + 1)
    /\ UNCHANGED << imageArgs, commentsWithImages, resp, branchVars, fetchVars,
                    validationVars >>

ImagesNext ==
    \/ ImagesCall
    \/ MkdirSettled
    \/ HtmlSettled
    \/ ImageFetchSettled
    \/ BufferSettled
    \/ WriteSettled

SpecImages == ImagesInit /\ [][ImagesNext]_vars

(***************************************************************************)
(* Properties of downloadCommentImages.                                    *)
(***************************************************************************)
ImagesTypeOK ==
    /\ pc \in { "start", "awaitMkdir", "awaitHtml", "awaitFetch", "awaitBuffer",
                "awaitWrite", "done", "thrown" }
    /\ Len(urlToPathMap) <= MaxImageComments * MaxPieces
    /\ now \in 0..MaxTicks

HtmlCalls == CallsOfKind("html")
ImageFetchCalls == CallsOfKind("fetch")
WriteCalls == CallsOfKind("write")

\* the signed URLs the k-th rendered-HTML answer held
SignedCount(k) ==
    IF k <= Len(resp.html) /\ resp.html[k].state = "ok" /\ resp.html[k].html
    THEN resp.html[k].signed ELSE 0

\* min(matched URLs, signed URLs) of the k-th comment with images
PairsOf(k) ==
    IF SignedCount(k) < Len(commentsWithImages[k].urls)
    THEN SignedCount(k) ELSE Len(commentsWithImages[k].urls)

RECURSIVE SumOfPairs(_)
SumOfPairs(k) == IF k = 0 THEN 0 ELSE SumOfPairs(k - 1) + PairsOf(k)

\* the fetches issued for the original URL u
FetchesOf(u) == SelectSeq(ImageFetchCalls, LAMBDA c : c.original = u)

\* C16: the number of entries of the returned map is at most the sum, over
\* the comments, of min(matched attachment URLs of the body, signed URLs of
\* the rendered HTML); comments without a match and comments whose HTML is
\* not obtained count zero.
C16_MapSizeBoundedByPairs ==
    /\ Len(urlToPathMap) <= SumOfPairs(Len(resp.html))
    /\ Done => Len(result.map) <= SumOfPairs(Len(commentsWithImages))

\* C16 witness: one comment with two matches whose HTML held one signed URL;
\* the returned map has the one entry the bound allows
C16_Witness ==
    /\ Done
    /\ Len(commentsWithImages) = 1
    /\ Len(commentsWithImages[1].urls) = 2
    /\ SignedCount(1) = 1
    /\ SumOfPairs(1) = 1
    /\ Len(result.map) = 1

\* C17: within one run the map only grows: every entry stays where it is with
\* the same local path, and no fetch is issued for an original URL that is a
\* key of the map.
C17_MappedOnceNeverAgain ==
    [][ /\ Len(urlToPathMap') >= Len(urlToPathMap)
        /\ \A n \in 1..Len(urlToPathMap) : urlToPathMap'[n] = urlToPathMap[n]
        /\ \A n, o \in 1..Len(urlToPathMap') :
              urlToPathMap'[n].key = urlToPathMap'[o].key => n = o
        /\ Len(calls') > Len(calls) /\ calls'[Len(calls')].kind = "fetch" =>
              calls'[Len(calls')].original \notin MapKeys(urlToPathMap) ]_vars

\* C17 witness: the same original URL is the first match of both comments,
\* it was mapped in the first, the second comment's HTML held a signed URL
\* for it, and the run ended with one fetch for it
C17_Witness ==
    /\ Done
    /\ Len(commentsWithImages) = 2
    /\ commentsWithImages[1].urls[1] = commentsWithImages[2].urls[1]
    /\ SignedCount(1) >= 1
    /\ SignedCount(2) >= 1
    /\ MapKeys(result.map) = { commentsWithImages[1].urls[1] }
    /\ Len(FetchesOf(commentsWithImages[1].urls[1])) = 1

\* the comment with the given id
CommentOfId(id) == CHOOSE c \in { imageComments[n] : n \in 1..Len(imageComments) } : c.id = id

\* C19: a rendered-HTML request is made only for a comment whose body holds
\* at least one match of the attachment image pattern (and it is the request
\* of that comment's type).
C19_NoHtmlRequestWithoutMatch ==
    \A n \in 1..Len(HtmlCalls) :
        /\ MatchedUrls(CommentOfId(HtmlCalls[n].arg).body, env) # <<>>
        /\ HtmlCalls[n].op = HtmlOp(CommentOfId(HtmlCalls[n].arg).type)

\* C19 witness: the first comment has no match, the second has one, and the
\* run ended with the one request for the second
C19_Witness ==
    /\ Done
    /\ Len(imageComments) = 2
    /\ MatchedUrls(imageComments[1].body, env) = <<>>
    /\ MatchedUrls(imageComments[2].body, env) # <<>>
    /\ Len(HtmlCalls) = 1
    /\ HtmlCalls[1].arg = imageComments[2].id

\* the fetch of pair j (counted from 1) of the k-th comment with images
PairAttempted(k, j) ==
    \E n \in 1..Len(ImageFetchCalls) :
        /\ ImageFetchCalls[n].comment = commentsWithImages[k].comment.id
        /\ ImageFetchCalls[n].index = j - 1

\* C20: a failure while handling one pair (deriving its extension, the fetch,
\* a response that is not ok, the write) does not prevent a later pair of the
\* same comment or a pair of a later comment from being downloaded: when the
\* run has returned, every comment with images was asked for its HTML and
\* every one of its pairs is mapped, was fetched, or is itself one whose
\* extension cannot be derived.
C20_PairFailureIsIsolated ==
    Done =>
        /\ Len(HtmlCalls) = Len(commentsWithImages)
        /\ \A k \in 1..Len(commentsWithImages) :
              \A j \in 1..PairsOf(k) :
                  \/ MapHas(result.map, commentsWithImages[k].urls[j])
                  \/ PairAttempted(k, j)
                  \/ ExtensionThrows(commentsWithImages[k].urls[j])

(***************************************************************************)
(* Two calls of downloadCommentImages with the same comments, one after    *)
(* the other.  calls and resp are those of the call that is running;       *)
(* firstMap is the map the first call returned.                            *)
(***************************************************************************)
MaxReinvokedComments == 1

ImagesTwiceInit ==
    /\ ImagesInit
    /\ Len(imageComments) <= MaxReinvokedComments

\* a second call that would go on with the map of the first
ReinvokeSharedMap ==
    /\ pc = "done"
    /\ invocation = 1
    /\ invocation' = 2
    /\ firstMap' = result.map
    /\ urlToPathMap' = result.map
    /\ commentsWithImages' = <<>>
    /\ cursor' = NoCursor
    /\ signedUrls' = <<>>
    /\ pc' = "start"
    /\ calls' = <<>>
    /\ resp' = ImagesNoResponses
    /\ result' = NoResult
    /\ UNCHANGED << imageComments, env, now, branchVars, fetchVars,
                    validationVars >>

\* lines 67-75: the second call; its urlToPathMap is a new Map and its
\* commentsWithImages a new array
Reinvoke ==
    /\ pc = "done"
    /\ invocation = 1
    /\ invocation' = 2
    /\ firstMap' = result.map
    /\ urlToPathMap' = <<>>
    /\ commentsWithImages' = <<>>
    /\ cursor' = NoCursor
    /\ signedUrls' = <<>>
    /\ pc' = "start"
    /\ calls' = <<>>
    /\ resp' = ImagesNoResponses
    /\ result' = NoResult
    /\ UNCHANGED << imageComments, env, now, branchVars, fetchVars,
                    validationVars >>

ImagesTwiceNext ==
    \/ ImagesCall
    \/ MkdirSettled
    \/ HtmlSettled
    \/ ImageFetchSettled
    \/ BufferSettled
    \/ WriteSettled
    \/ Reinvoke

SpecImagesTwice == ImagesTwiceInit /\ [][ImagesTwiceNext]_vars

\* the entry of map m for key k was written during the running call
WrittenInThisCall(m, k) ==
    /\ \E n \in 1..Len(calls) : calls[n].kind = "fetch" /\ calls[n].original = k
    /\ \E n \in 1..Len(calls) : calls[n].kind = "write" /\ calls[n].arg = MapGet(m, k)

\* C18 as stated: a second invocation performs no download for an original
\* URL that the first invocation mapped.
C18_SecondCallSkipsMappedUrls ==
    invocation = 2 =>
        \A n \in 1..Len(calls) :
            calls[n].kind = "fetch" => calls[n].original \notin MapKeys(firstMap)

\* C18 amended: a second invocation starts from a new empty map: every entry
\* of its map, and of the map it returns, was fetched and written during the
\* second invocation itself, the URLs the first invocation mapped included;
\* nothing is carried over from the first invocation's map.
C18_SecondCallStartsFromEmptyMap ==
    invocation = 2 =>
        /\ pc \in { "start", "awaitMkdir" } => urlToPathMap = <<>>
        /\ \A k \in MapKeys(urlToPathMap) : WrittenInThisCall(urlToPathMap, k)
        /\ Done => result.map = urlToPathMap

\* C18 witness: the first call mapped a URL and the second call has returned
\* a map that holds the same URL, fetched again
C18_Witness ==
    /\ invocation = 2
    /\ Done
    /\ firstMap # <<>>
    /\ MapKeys(result.map) = MapKeys(firstMap)
    /\ \A k \in MapKeys(firstMap) : WrittenInThisCall(result.map, k)

(***************************************************************************)
(* Further properties of one call of downloadCommentImages.                *)
(***************************************************************************)
\* the k-th rendered-HTML request was rejected or answered without body_html
HtmlMissing(k) == ~(resp.html[k].state = "ok" /\ resp.html[k].html)

\* the fetches issued for pairs of the k-th comment with images
FetchesOfComment(k) ==
    SelectSeq(ImageFetchCalls,
              LAMBDA c : c.comment = commentsWithImages[k].comment.id)

\* C21: a comment whose rendered-HTML request fails or returns no HTML
\* contributes nothing (no fetch is issued for any of its pairs, so no entry
\* comes from it), the failure does not make the call throw, and every later
\* comment with images is still asked for its HTML.
C21_MissingHtmlSkipsTheComment ==
    /\ \A k \in 1..Len(resp.html) : HtmlMissing(k) => FetchesOfComment(k) = <<>>
    /\ Thrown => resp.mkdir.state = "fail" /\ resp.html = <<>>
    /\ Done => /\ Len(resp.html) = Len(commentsWithImages)
               /\ Len(HtmlCalls) = Len(commentsWithImages)

\* C21 witness: the first comment's HTML request was rejected, the second
\* comment's image was downloaded and is the one entry of the returned map
C21_Witness ==
    /\ Done
    /\ Len(commentsWithImages) = 2
    /\ resp.html[1].state = "fail"
    /\ ~HtmlMissing(2)
    /\ FetchesOfComment(1) = <<>>
    /\ Len(FetchesOfComment(2)) = 1
    /\ Len(result.map) = 1

(***************************************************************************)
(* One call of downloadCommentImages on the GitHub dialect for comments    *)
(* that hold two different attachment URLs with the same extension.        *)
(***************************************************************************)
UrlB == Url(GitHubServer, GitHubArea, <<>>, << "b", ".", "G", "i", "f" >>)

PathBodies ==
    { Body(ps) : ps \in SeqsUpTo({ ImagePiece(UrlA), ImagePiece(UrlB) }, MaxPieces) \ { <<>> } }

PathCommentSets ==
    UNION { { [n \in 1..k |-> ImageComment(n, ts[n], bs[n])] :
                ts \in [1..k -> CommentTypes], bs \in [1..k -> PathBodies] } :
            k \in 0..MaxImageComments }

ImagePathsInit ==
    /\ imageComments \in PathCommentSets
    /\ env = EmptyEnv
    /\ commentsWithImages = <<>>
    /\ urlToPathMap = <<>>
    /\ cursor = NoCursor
    /\ signedUrls = <<>>
    /\ now = 0
    /\ invocation = 1
    /\ firstMap = <<>>
    /\ pc = "start"
    /\ calls = <<>>
    /\ resp = ImagesNoResponses
    /\ result = NoResult
    /\ BranchIdle
    /\ FetchIdle
    /\ ValidationIdle

ImagePathsNext ==
    \/ ImagesCall
    \/ MkdirSettled
    \/ HtmlSettled
    \/ ImageFetchSettled
    \/ BufferSettled
    \/ WriteSettled

SpecImagePaths == ImagePathsInit /\ [][ImagePathsNext]_vars

\* C22: any two distinct original URLs of the map have distinct local file
\* paths: the generated file names never collide within a run.
C22_DistinctUrlsDistinctPaths ==
    /\ \A n, o \in 1..Len(urlToPathMap) :
          n # o => urlToPathMap[n].value # urlToPathMap[o].value
    /\ Done => \A n, o \in 1..Len(result.map) :
          n # o => result.map[n].value # result.map[o].value

\* the characters of a recognised image extension that end the file name
EndsWithImageExtension(filename, ext) ==
    /\ Len(ext) <= Len(filename)
    /\ Suffix(filename, Len(ext)) = ext
    /\ Head(ext) = "."
    /\ ToLowerCase(Tail(ext)) \in ImageExtensions

\* C23: extension derivation is total: for every original URL matched by the
\* attachment pattern getImageExtension does not fail and returns the
\* recognised image extension that ends the trailing path segment, or ".png".
C23_ExtensionIsTotal ==
    \A k \in 1..Len(commentsWithImages) :
        \A j \in 1..Len(commentsWithImages[k].urls) :
            LET url == commentsWithImages[k].urls[j]
            IN  /\ ~ExtensionThrows(url)
                /\ \/ EndsWithImageExtension(url.file, GetImageExtension(url))
                   \/ GetImageExtension(url) = DefaultExtension

\* the last request issued
LastCall == calls[Len(calls)]

\* the position in commentsWithImages of the comment with the given id
PositionOfId(id) ==
    CHOOSE k \in 1..Len(commentsWithImages) : commentsWithImages[k].comment.id = id

\* the position of the comment a request of the log is made for
PositionOfCall(n) ==
    PositionOfId(IF calls[n].kind = "html" THEN calls[n].arg ELSE calls[n].comment)

\* C24: comments and images are processed strictly sequentially.  The request
\* or write that is awaited is always the last one issued, so nothing is
\* issued while another is in flight; and in the order of issue the HTML
\* requests follow the order of the comments, every fetch belongs to the
\* comment of the latest HTML request before it, the fetches of one comment
\* follow the order of its pairs, and a write follows the fetch of its bytes
\* at once: the HTML request of the next comment comes after everything of
\* the comment before.
C24_StrictlySequential ==
    /\ pc = "awaitMkdir" => calls = << MkdirCall >>
    /\ pc = "awaitHtml" =>
          LastCall = HtmlCall(commentsWithImages[cursor.k].comment)
    /\ pc \in { "awaitFetch", "awaitBuffer" } =>
          /\ LastCall.kind = "fetch"
          /\ LastCall.comment = commentsWithImages[cursor.k].comment.id
          /\ LastCall.index = cursor.i - 1
    /\ pc = "awaitWrite" =>
          /\ LastCall.kind = "write"
          /\ LastCall.arg = cursor.path
    /\ \A n \in 1..Len(calls) :
          /\ calls[n].kind = "mkdir" => n = 1
          /\ calls[n].kind = "write" =>
                n > 1 /\ calls[n - 1].kind = "fetch" /\ calls[n - 1].arg = calls[n].bytes
          /\ calls[n].kind \in { "html", "fetch" } =>
                \A o \in 1..(n - 1) :
                    calls[o].kind \in { "html", "fetch" } =>
                        /\ PositionOfCall(o) <= PositionOfCall(n)
                        /\ calls[n].kind = "html" => PositionOfCall(o) < PositionOfCall(n)
                        /\ calls[o].kind = "fetch" /\ calls[n].kind = "fetch"
                           /\ PositionOfCall(o) = PositionOfCall(n) =>
                               calls[o].index < calls[n].index

\* C24 witness: two comments, one image each, both downloaded: the log is
\* mkdir, HTML 1, fetch, write, HTML 2, fetch, write
C24_Witness ==
    /\ Done
    /\ Len(commentsWithImages) = 2
    /\ [n \in 1..Len(calls) |-> calls[n].kind]
          = << "mkdir", "html", "fetch", "write", "html", "fetch", "write" >>
    /\ Len(result.map) = 2

\* C27: pairing is by position.  Every fetch is for the signed URL at the
\* position, in the rendered HTML of its comment, that the original URL has
\* among the matches of that comment's body, and that position is below the
\* length of the shorter list; the bytes of every write are those of the
\* fetch before it; and every entry of the map was written from the signed
\* URL at the position of its original URL in the same comment.
C27_PairedByPosition ==
    /\ \A n \in 1..Len(calls) :
          /\ calls[n].kind = "fetch" =>
                LET k == PositionOfId(calls[n].comment)
                    j == calls[n].index + 1
                IN  /\ j <= PairsOf(k)
                    /\ calls[n].original = commentsWithImages[k].urls[j]
                    /\ calls[n].arg = Signed(calls[n].comment, j)
          /\ calls[n].kind = "write" => calls[n].bytes = calls[n - 1].arg
    /\ \A e \in 1..Len(urlToPathMap) :
          \E n \in 2..Len(calls) :
              /\ calls[n].kind = "write"
              /\ calls[n].arg = urlToPathMap[e].value
              /\ calls[n - 1].original = urlToPathMap[e].key
              /\ calls[n].bytes = Signed(calls[n - 1].comment, calls[n - 1].index + 1)

\* C27 witness: a comment with two different URLs whose HTML held two signed
\* URLs; both were downloaded and mapped, and a second comment with two
\* matches got one signed URL, so its second pair was not downloaded
C27_Witness ==
    /\ Done
    /\ Len(commentsWithImages) = 2
    /\ commentsWithImages[1].urls = << UrlA, UrlB >>
    /\ SignedCount(1) = 2
    /\ MapKeys(result.map) = { UrlA, UrlB }
    /\ Len(commentsWithImages[2].urls) = 2
    /\ SignedCount(2) = 1
    /\ Len(FetchesOfComment(1)) = 2

\* C28: within one run each distinct original URL is fetched at most once,
\* whether or not the fetch succeeds.
C28_EachUrlFetchedAtMostOnce ==
    \A n, o \in 1..Len(calls) :
        calls[n].kind = "fetch" /\ calls[o].kind = "fetch"
        /\ calls[n].original = calls[o].original => n = o

(***************************************************************************)
(* checkWritePermissions and checkHumanActor: one call of either.          *)
(*                                                                         *)
(* An actor is its login with what the platform holds of it: the           *)
(* permission level on the repository, whether it is a collaborator, and   *)
(* the type of its user record (Gitea has no type field).                  *)
(***************************************************************************)
PermissionLevels == { "admin", "write", "read", "none" }
UserTypes == { Str("User"), Str("Bot"), Str("Organization"), Undefined }

Actors ==
    { [name |-> "actor", permission |-> p, collaborator |-> c, type |-> t] :
        p \in PermissionLevels, c \in BOOLEAN, t \in UserTypes }

\* the actor has write permission
HasWriteAccess(a) == a.permission \in { "admin", "write" }

\* the statuses of a rejected request
FailureStatuses == { 403, 404, 500 }
Rejected(status) == [state |-> "fail", status |-> status]

\* repos.getCollaboratorPermissionLevel: the level, or a rejection
PermissionResponses(a) ==
    { [state |-> "ok", permission |-> a.permission] }
    \cup { Rejected(s) : s \in FailureStatuses }

\* repos.checkCollaborator resolves for a collaborator only (it is rejected
\* with 404 for anyone else), and can be rejected for any actor
CollaboratorResponses(a) ==
    (IF a.collaborator THEN { [state |-> "ok"] } ELSE {})
    \cup { Rejected(s) : s \in FailureStatuses }

\* users.getByUsername: the user record, or a rejection
UserResponses(a) ==
    { [state |-> "ok", type |-> a.type] } \cup { Rejected(s) : s \in FailureStatuses }

PermissionLevelCall(a) ==
    [kind |-> "api", op |-> "repos.getCollaboratorPermissionLevel", arg |-> a.name]
CheckCollaboratorCall(a) ==
    [kind |-> "api", op |-> "repos.checkCollaborator", arg |-> a.name]
GetByUsernameCall(a) ==
    [kind |-> "api", op |-> "users.getByUsername", arg |-> a.name]

\* permissions.ts line 30
GrantsWrite(level) == level = "admin" \/ level = "write"

\* a test that would take a missing type for a non-human actor
IsNonHumanUnlessUser(actorType) == ~(actorType.def /\ actorType.str = "User")
\* actor.ts line 26
IsNonHuman(actorType) == actorType.def /\ actorType.str # "User"

ValidationNoResponses ==
    [ permission |-> NotAsked, collaborator |-> NotAsked, user |-> NotAsked ]
Answered(b) == [returned |-> TRUE, value |-> b]

ValidationInit ==
    /\ actor \in Actors
    /\ env = EmptyEnv
    /\ pc = "start"
    /\ calls = <<>>
    /\ resp = ValidationNoResponses
    /\ result = NoResult
    /\ BranchIdle
    /\ FetchIdle
    /\ ImagesIdle

\* permissions.ts lines 11-25
PermissionsCall ==
    /\ pc = "start"
    /\ calls' = Append(calls, PermissionLevelCall(actor))
    /\ pc' = "awaitPermission"
    /\ UNCHANGED << actor, env, resp, result, branchVars, fetchVars, imageVars >>

\* permissions.ts lines 27-49: the level decides; a rejection goes to the
\* collaborator check
PermissionSettled ==
    /\ pc = "awaitPermission"
    /\ \E r \in PermissionResponses(actor) :
        /\ resp' = [resp EXCEPT !.permission = r]
        /\ IF r.state = "ok"
           THEN /\ result' = Answered(GrantsWrite(r.permission))
                /\ pc' = "done"
                /\ calls' = calls
           ELSE /\ calls' = Append(calls, CheckCollaboratorCall(actor))
                /\ pc' = "awaitCollaborator"
                /\ result' = result
    /\ UNCHANGED << actor, env, branchVars, fetchVars, imageVars >>

\* permissions.ts lines 45-64: true for a collaborator, and true as well
\* when the collaborator check is rejected
CollaboratorSettled ==
    /\ pc = "awaitCollaborator"
    /\ \E r \in CollaboratorResponses(actor) :
        /\ resp' = [resp EXCEPT !.collaborator = r]
        /\ result' = Answered(TRUE)
        /\ pc' = "done"
    /\ UNCHANGED << actor, env, calls, branchVars, fetchVars, imageVars >>

\* actor.ts lines 11-18
HumanActorCall ==
    /\ pc = "start"
    /\ calls' = Append(calls, GetByUsernameCall(actor))
    /\ pc' = "awaitUser"
    /\ UNCHANGED << actor, env, resp, result, branchVars, fetchVars, imageVars >>

\* actor.ts lines 16-42: the rejection of the lookup is not caught; a type
\* other than "User" throws; otherwise the function returns nothing
UserLookupSettled ==
    /\ pc = "awaitUser"
    /\ \E r \in UserResponses(actor) :
        /\ resp' = [resp EXCEPT !.user = r]
        /\ IF r.state = "ok" /\ ~IsNonHuman(r.type)
           THEN /\ pc' = "done"
                /\ result' = [returned |-> TRUE]
           ELSE /\ pc' = "thrown"
                /\ result' = result
    /\ UNCHANGED << actor, env, calls, branchVars, fetchVars, imageVars >>

ValidationNext ==
    \/ PermissionsCall
    \/ PermissionSettled
    \/ CollaboratorSettled
    \/ HumanActorCall
    \/ UserLookupSettled

SpecValidation == ValidationInit /\ [][ValidationNext]_vars

(***************************************************************************)
(* Properties of checkWritePermissions and checkHumanActor.                *)
(***************************************************************************)
ValidationTypeOK ==
    /\ pc \in { "start", "awaitPermission", "awaitCollaborator", "awaitUser",
                "done", "thrown" }
    /\ actor \in Actors

PermissionsAsked ==
    calls # <<>> /\ calls[1].op = "repos.getCollaboratorPermissionLevel"
HumanAsked == calls # <<>> /\ calls[1].op = "users.getByUsername"

\* C25: checkWritePermissions returns true if the actor has write permission
\* (level admin or write) and false otherwise, also when the permission-level
\* query or the collaborator check fails.
C25_TrueExactlyForWriteAccess ==
    (Done /\ PermissionsAsked) => result.value = HasWriteAccess(actor)

\* C26: checkHumanActor throws an error of its own exactly when the user
\* lookup returns a type that is defined and is not "User"; an actor whose
\* record has no type is accepted, and a rejected lookup is propagated as an
\* exception, never accepted.
C26_RejectsExactlyNonHumans ==
    HumanAsked =>
        /\ pc \in { "awaitUser", "done", "thrown" }
        /\ pc = "done" =>
              /\ resp.user.state = "ok"
              /\ ~resp.user.type.def \/ resp.user.type.str = "User"
        /\ pc = "thrown" =>
              \/ resp.user.state = "fail"
              \/ /\ resp.user.state = "ok"
                 /\ resp.user.type.def
                 /\ resp.user.type.str # "User"
        /\ pc = "awaitUser" => resp.user = NotAsked

\* C26 witness: the record of the actor has no type field, the lookup
\* succeeded and the call returned
C26_Witness ==
    /\ HumanAsked
    /\ Done
    /\ resp.user.state = "ok"
    /\ resp.user.type = Undefined

(***************************************************************************)
(* Further properties of checkAndCommitOrDeleteBranch.                     *)
(***************************************************************************)
\* every request and command of the call settles
SpecTerminating == Spec /\ WF_vars(Next)

PushCalls == SelectSeq(ShellCalls, LAMBDA c : c.op = "git push origin")

\* what holds of the call at every moment
NeverThrowsAndResultShape ==
    /\ pc # "thrown"
    /\ Done =>
          \/ result = Returned(FALSE, "")
          \/ result = Returned(TRUE, "")
          \/ LinkReturned
    /\ ~(PushCalls # <<>> /\ DeleteCalls # <<>>)

\* C29: every call terminates by returning a result and never throws,
\* whichever query, command or delete request fails; the result is
\* {false, ""}, {true, ""} or {false, non-empty link}; and a push and a
\* delete request never both occur in one call.
C29_AlwaysReturnsOneOfThree ==
    /\ []NeverThrowsAndResultShape
    /\ <>Done

\* C29 witness: the push failed and the call returned the branch link
C29_Witness ==
    /\ Done
    /\ resp.push.state = "fail"
    /\ PushCalls # <<>>
    /\ LinkReturned

\* C30: when the existence query fails with an error other than not-found,
\* the call behaves as for a missing branch: it returns
\* {shouldDeleteBranch: false, branchLink: ""} with no head comparison, no
\* shell command and no delete request.
C30_OtherErrorIsMissingBranch ==
    (pc # "awaitExists" /\ resp.exists.state = "fail" /\ resp.exists.status # 404) =>
        /\ Done
        /\ result = Returned(FALSE, "")
        /\ calls = << GetBranchCall(BranchName(claudeBranch)) >>
        /\ resp.base = NotAsked /\ resp.claude = NotAsked
        /\ ShellCalls = <<>> /\ DeleteCalls = <<>>

\* C30 witness: the existence query failed with status 500 and the call
\* returned
C30_Witness ==
    /\ Done
    /\ resp.exists.state = "fail"
    /\ resp.exists.status = 500

====
